---- MODULE Spec2Model ----
(***************************************************************************)
(* Model of onionbalance/status.py: the status server on a Unix domain     *)
(* socket.  StatusSocket owns the socket file and the serving thread,      *)
(* ThreadingSocketServer runs one thread per accepted connection, and      *)
(* StatusSocketHandler.send_status renders config.services into text.      *)
(*                                                                         *)
(* Text is modelled as a sequence of string pieces (the literal parts of   *)
(* the format strings and the formatted fields); concatenation is \o.      *)
(* An optional value (None or a value) is the empty or the one-element     *)
(* sequence, so Python's truth test "if x" is x # <<>>.                    *)
(***************************************************************************)
EXTENDS Integers, Sequences, FiniteSets, TLC

\* ------------------------------------------------------------ bounds

\* Most connections a run accepts (each gets its own handler thread).
MaxConns == 2
\* Most services in config.services.
MaxServices == 2
\* Most instances of one service.
MaxInstances == 2
\* Most writes the owner of config.services makes in one run.
MaxMutations == 1
\* A failed write has delivered at most this many pieces of the response.
MaxPartial == 1

Conns == 1..MaxConns
InstIds == 1..(MaxServices * MaxInstances)

\* ------------------------------------------------------------ values

None == <<>>

\* Seconds in a day and in an hour, for the clock arithmetic of strftime.
DaySeconds == 24 * 60 * 60
HourSeconds == 60 * 60

\* The local timezone's offset from UTC, which datetime.fromtimestamp adds.
UtcOffset == 2 * HourSeconds

\* datetime values are seconds of local time counted from 2016-05-01 00:00:00;
\* epoch values (last_check_time) are seconds of UTC counted from the same day's
\* local midnight expressed in UTC, so that fromtimestamp is not the identity.
UploadTime == (11 * HourSeconds) + (8 * 60) + 56
RefreshTime == DaySeconds + (11 * HourSeconds)
CheckEpoch == (11 * HourSeconds) + (5 * 60) + 2 - UtcOffset

ServiceAddress == <<"uweyln7jhkyaokka", "abcdefghijklmnop", "qrstuvwxyz234567">>
InstanceAddress == <<"r523s7jx65ckitf4", "v2q7ujuleky7odph", "def6z7jx65ckitf4",
                     "ghi7ujuleky7odph", "jkl3s7jx65ckitf4", "mno7ujuleky7odph",
                     "pqr3s7jx65ckitf4", "stu7ujuleky7odph", "vwx3s7jx65ckitf4">>
\* len(instance.introduction_points) of each instance
IntroPoints == <<3, 10, 0, 3, 10, 0, 3, 10, 0>>

\* ------------------------------------------------------------ formatting

Digit == <<"0", "1", "2", "3", "4", "5", "6", "7", "8", "9">>

\* "%02d"
Pad2(n) == <<Digit[(n \div 10) + 1], Digit[(n % 10) + 1]>>

\* str(n) of a natural number, as "{}".format(len(...)) writes it
RECURSIVE DecStr(_)
DecStr(n) == IF n < 10 THEN <<Digit[n + 1]>>
             ELSE DecStr(n \div 10) \o <<Digit[(n % 10) + 1]>>

\* "%Y-%m-%d" of the days the model's datetime values fall on
DateStr == <<"2016-05-01", "2016-05-02", "2016-05-03">>

\* strftime('%H:%M:%S')
strftime_clock(t) ==
    LET s == t % DaySeconds
    IN  Pad2(s \div HourSeconds) \o <<":">>
          \o Pad2((s % HourSeconds) \div 60) \o <<":">>
          \o Pad2(s % 60)

\* strftime(time_format), time_format = "%Y-%m-%d %H:%M:%S"
strftime_full(t) == <<DateStr[(t \div DaySeconds) + 1], " ">> \o strftime_clock(t)

\* datetime.fromtimestamp: epoch seconds to local time
fromtimestamp(e) == e + UtcOffset

\* "{}.onion {}".format(service.onion_address, service_timestamp)
service_line(address, service_timestamp) ==
    <<address, ".onion ">> \o service_timestamp

\* "  {}.onion [offline]".format(instance.onion_address)
offline_line_unmarked(address) == <<"  ", address, ".onion ">>
offline_line(address) == <<"  ", address, ".onion ", "[offline]">>

\* "  {}.onion {} {} IPs".format(address, timestamp.strftime(time_format), len(ips))
online_line(address, timestamp, nips) ==
    <<"  ", address, ".onion ">> \o strftime_full(timestamp) \o <<" ">>
        \o DecStr(nips) \o <<" IPs">>

\* " [up at %s]" % ts
up_suffix(last_check_time) ==
    <<" [up at ">> \o strftime_clock(fromtimestamp(last_check_time)) \o <<"]">>

\* " [down at %s]" % ts
down_suffix(last_check_time) ==
    <<" [down at ">> \o strftime_clock(fromtimestamp(last_check_time)) \o <<"]">>

\* '\n'.join(response): the separator stands between elements only
RECURSIVE join(_)
join(response) ==
    IF response = <<>> THEN <<>>
    ELSE IF Len(response) = 1 THEN response[1]
    ELSE response[1] \o <<"\n">> \o join(Tail(response))

\* response[-1] += suffix
append_to_last(response, suffix) ==
    [response EXCEPT ![Len(response)] = @ \o suffix]

\* ------------------------------------------------------------ state

VARIABLES
    services,         \* config.services: the list of service objects
    instances,        \* the instance objects, by identity
    mutations,        \* writes the owner has made to services/instances
    conn,             \* per connection: its handler thread's position and locals,
                      \*   and what its client has received
    accepted,         \* connections accepted so far
    main_pc,          \* the owning process's main thread
    ctor,             \* how StatusSocket.__init__ ended
    sockfile,         \* whether a file exists at unix_socket_filename
    server,           \* self.server: "unset", or its listening socket "open"/"closed"
    thread,           \* server_thread, which runs serve_forever
    shutdown_request, \* BaseServer.__shutdown_request
    is_shut_down,     \* BaseServer.__is_shut_down (an Event)
    log,              \* records written to the logger
    closes,           \* calls of close() that have returned: 0, 1, or 2 and more
    close_raised,     \* the exception that has left a call of close(), or "none"
    process           \* "alive" or "exited"

heap_vars == <<services, instances, mutations>>
server_vars == <<main_pc, ctor, sockfile, server, thread, shutdown_request,
                 is_shut_down, log, closes, close_raised, process>>
vars == <<services, instances, mutations, conn, accepted, main_pc, ctor, sockfile,
          server, thread, shutdown_request, is_shut_down, log, closes, close_raised,
          process>>

\* ------------------------------------------------------------ the snapshot source

HealthStates == {"None", "True", "False"}
HealthCheckTypes == {"None", "tcp"}

\* The instance objects a service of the configuration can hold.
Pool(k) == ((k - 1) * MaxInstances + 1)..(k * MaxInstances)

\* An instance object as the owner creates it: never refreshed, never checked.
FreshInstance(i) ==
    [onion_address |-> InstanceAddress[i], timestamp |-> None,
     introduction_points |-> IntroPoints[i], is_healthy |-> "None",
     last_check_time |-> None]

\* The states an instance object can be in: refreshed or not, and checked
\* healthy, unhealthy or not at all (last_check_time is set with the result).
InstanceState(i, ts, h) ==
    [onion_address |-> InstanceAddress[i], timestamp |-> ts,
     introduction_points |-> IntroPoints[i], is_healthy |-> h,
     last_check_time |-> IF h = "None" THEN None ELSE <<CheckEpoch>>]

InstanceCases ==
    <<<<None, "None">>, <<<<RefreshTime>>, "True">>, <<None, "False">>,
      <<<<RefreshTime>>, "None">>, <<None, "True">>, <<<<RefreshTime>>, "False">>>>

\* The states a service object can be in: uploaded or not, checked or not.
ServiceCases ==
    <<<<None, "None">>, <<<<UploadTime>>, "tcp">>, <<None, "tcp">>,
      <<<<UploadTime>>, "None">>>>

Rotate(cases, n) == cases[(n % Len(cases)) + 1]

\* config.services with the given number of instances per service (counts is a
\* sequence, one entry per service); the services take the cases of
\* ServiceCases in turn from the so-th on, the instances those of InstanceCases
\* from the io-th on, so that every case occurs at every place.
Snapshot(counts, so, io) ==
    [k \in 1..Len(counts) |->
        [onion_address |-> ServiceAddress[k],
         uploaded |-> Rotate(ServiceCases, k + so)[1],
         health_check_type |-> Rotate(ServiceCases, k + so)[2],
         instances |-> [j \in 1..counts[k] |-> (k - 1) * MaxInstances + j]]]

Listed(svcs) == UNION {{svcs[k].instances[j] : j \in 1..Len(svcs[k].instances)} :
                       k \in 1..Len(svcs)}

Topologies == UNION {[1..n -> 0..MaxInstances] : n \in 0..MaxServices}

\* config.services and its objects with the given topology, so and io.
Heap(counts, so, io) ==
    /\ services = Snapshot(counts, so, io)
    /\ instances = [i \in InstIds |->
           IF i \in Listed(Snapshot(counts, so, io))
           THEN InstanceState(i, Rotate(InstanceCases, i + io)[1],
                              Rotate(InstanceCases, i + io)[2])
           ELSE FreshInstance(i)]
    /\ mutations = 0

\* Every topology within the bounds, in every rotation of the cases.
InitHeap ==
    \E counts \in Topologies, so \in 1..Len(ServiceCases), io \in 1..Len(InstanceCases) :
        Heap(counts, so, io)

\* One service with one instance, in every case of each: the smallest
\* config.services that takes send_status through both of its loops.
InitSmallHeap ==
    \E so \in 1..Len(ServiceCases), io \in 1..Len(InstanceCases) :
        Heap(<<1>>, so, io)

\* ------------------------------------------------------------ the handler

\* A connection nobody has made yet: no thread, nothing received.
NoConn ==
    [pc |-> "idle", si |-> 0, ii |-> 0, inst |-> 0, response |-> <<>>,
     healthcheck |-> FALSE, received |-> <<>>, outcome |-> "none",
     error |-> "none", raced |-> FALSE, seen |-> {}]

\* The handler thread of a connection just accepted: send_status is about to run
\* with response = [] (line 33).
NewConn ==
    [NoConn EXCEPT !.pc = "service", !.seen = {<<services, instances>>}]

\* The handler's locals once its thread has ended.
Ended(h) ==
    [h EXCEPT !.pc = "done", !.si = 0, !.ii = 0, !.inst = 0, !.response = <<>>,
              !.healthcheck = FALSE]

\* Lines 67-71: handle().  The exception e that send_status raised is caught
\* ("except Exception") and logged with logger.warning; handle returns.
handle_no_except(h, e) == [Ended(h) EXCEPT !.outcome = "propagated", !.error = e]
handle(h, e) == [Ended(h) EXCEPT !.outcome = "warned", !.error = e]

\* After an instance's line (and suffix): line 53, "if healthcheck".
after_line_unconditional(h) == "is_healthy"
after_line(h) == IF h.healthcheck THEN "is_healthy" ELSE "instance"

\* Lines 34-35, 37-42, 64: the next service of config.services; its line when it
\* was never uploaded; or, the list exhausted, the final empty element.
send_status_service(c) ==
    LET h == conn[c] IN
    /\ process = "alive"
    /\ h.pc = "service"
    /\ IF h.si >= Len(services)
       THEN conn' = [conn EXCEPT ![c] =
                [h EXCEPT !.pc = "sendall", !.response = Append(h.response, <<>>)]]
       ELSE LET svc == services[h.si + 1] IN
            IF svc.uploaded # None
            THEN conn' = [conn EXCEPT ![c] = [h EXCEPT !.pc = "uploaded", !.si = h.si + 1]]
            ELSE conn' = [conn EXCEPT ![c] =
                     [h EXCEPT !.pc = "instance", !.si = h.si + 1, !.ii = 0,
                               !.response = Append(h.response,
                                   service_line(svc.onion_address, <<"[not uploaded]">>)),
                               !.healthcheck = (svc.health_check_type # "None")]]
    /\ UNCHANGED <<heap_vars, accepted, server_vars>>

\* The service's line written to the connection as soon as it is formatted.
send_status_uploaded_streams(c) ==
    LET h == conn[c]
        svc == services[h.si] IN
    /\ process = "alive"
    /\ h.pc = "uploaded"
    /\ IF svc.uploaded = None
       THEN conn' = [conn EXCEPT ![c] = handle(h, "AttributeError")]
       ELSE conn' = [conn EXCEPT ![c] =
                [h EXCEPT !.pc = "instance", !.ii = 0,
                          !.received = h.received
                              \o service_line(svc.onion_address, strftime_full(svc.uploaded[1]))
                              \o <<"\n">>,
                          !.healthcheck = (svc.health_check_type # "None")]]
    /\ UNCHANGED <<heap_vars, accepted, server_vars>>

\* Lines 36, 39-42: service.uploaded is read again and formatted.
send_status_uploaded(c) ==
    LET h == conn[c]
        svc == services[h.si] IN
    /\ process = "alive"
    /\ h.pc = "uploaded"
    /\ IF svc.uploaded = None
       THEN conn' = [conn EXCEPT ![c] = handle(h, "AttributeError")]
       ELSE conn' = [conn EXCEPT ![c] =
                [h EXCEPT !.pc = "instance", !.ii = 0,
                          !.response = Append(h.response,
                              service_line(svc.onion_address, strftime_full(svc.uploaded[1]))),
                          !.healthcheck = (svc.health_check_type # "None")]]
    /\ UNCHANGED <<heap_vars, accepted, server_vars>>

\* The loop over the instances taking them off service.instances as it goes.
send_status_instance_pops(c) ==
    LET h == conn[c]
        list == services[h.si].instances IN
    /\ process = "alive"
    /\ h.pc = "instance"
    /\ IF list = <<>>
       THEN /\ conn' = [conn EXCEPT ![c] = [h EXCEPT !.pc = "service", !.ii = 0, !.inst = 0]]
            /\ UNCHANGED heap_vars
       ELSE /\ conn' = [conn EXCEPT ![c] =
                   [h EXCEPT !.pc = "timestamp", !.ii = h.ii + 1, !.inst = Head(list)]]
            /\ services' = [services EXCEPT ![h.si].instances = Tail(list)]
            /\ UNCHANGED <<instances, mutations>>
    /\ UNCHANGED <<accepted, server_vars>>

\* The loop over the instances going through service.instances from its end.
send_status_instance_reversed(c) ==
    LET h == conn[c]
        list == services[h.si].instances IN
    /\ process = "alive"
    /\ h.pc = "instance"
    /\ IF h.ii >= Len(list)
       THEN conn' = [conn EXCEPT ![c] = [h EXCEPT !.pc = "service", !.ii = 0, !.inst = 0]]
       ELSE conn' = [conn EXCEPT ![c] =
                [h EXCEPT !.pc = "timestamp", !.ii = h.ii + 1,
                          !.inst = list[Len(list) - h.ii]]]
    /\ UNCHANGED <<heap_vars, accepted, server_vars>>

\* Line 43: the list iterator of service.instances yields the element at its
\* index, or ends when the index has reached the list's present length.
send_status_instance(c) ==
    LET h == conn[c]
        list == services[h.si].instances IN
    /\ process = "alive"
    /\ h.pc = "instance"
    /\ IF h.ii >= Len(list)
       THEN conn' = [conn EXCEPT ![c] = [h EXCEPT !.pc = "service", !.ii = 0, !.inst = 0]]
       ELSE conn' = [conn EXCEPT ![c] =
                [h EXCEPT !.pc = "timestamp", !.ii = h.ii + 1, !.inst = list[h.ii + 1]]]
    /\ UNCHANGED <<heap_vars, accepted, server_vars>>

\* Lines 44-46: the test of instance.timestamp, and the offline line.
send_status_timestamp(c) ==
    LET h == conn[c]
        instance == instances[h.inst] IN
    /\ process = "alive"
    /\ h.pc = "timestamp"
    /\ IF instance.timestamp = None
       THEN conn' = [conn EXCEPT ![c] =
                [h EXCEPT !.pc = after_line(h),
                          !.response = Append(h.response,
                                              offline_line(instance.onion_address))]]
       ELSE conn' = [conn EXCEPT ![c] = [h EXCEPT !.pc = "online"]]
    /\ UNCHANGED <<heap_vars, accepted, server_vars>>

\* Lines 48-51: instance.timestamp is read again and formatted.
send_status_online(c) ==
    LET h == conn[c]
        instance == instances[h.inst] IN
    /\ process = "alive"
    /\ h.pc = "online"
    /\ IF instance.timestamp = None
       THEN conn' = [conn EXCEPT ![c] = handle(h, "AttributeError")]
       ELSE conn' = [conn EXCEPT ![c] =
                [h EXCEPT !.pc = after_line(h),
                          !.response = Append(h.response,
                              online_line(instance.onion_address, instance.timestamp[1],
                                          instance.introduction_points))]]
    /\ UNCHANGED <<heap_vars, accepted, server_vars>>

\* Line 54: "if instance.is_healthy".
send_status_is_healthy(c) ==
    LET h == conn[c] IN
    /\ process = "alive"
    /\ h.pc = "is_healthy"
    /\ conn' = [conn EXCEPT ![c] =
           [h EXCEPT !.pc = IF instances[h.inst].is_healthy = "True"
                            THEN "up" ELSE "unhealthy"]]
    /\ UNCHANGED <<heap_vars, accepted, server_vars>>

\* Lines 55-57: fromtimestamp(None) raises TypeError.
send_status_up(c) ==
    LET h == conn[c]
        instance == instances[h.inst] IN
    /\ process = "alive"
    /\ h.pc = "up"
    /\ IF instance.last_check_time = None
       THEN conn' = [conn EXCEPT ![c] = handle(h, "TypeError")]
       ELSE conn' = [conn EXCEPT ![c] =
                [h EXCEPT !.pc = "instance",
                          !.response = append_to_last(h.response,
                                           up_suffix(instance.last_check_time[1]))]]
    /\ UNCHANGED <<heap_vars, accepted, server_vars>>

\* Line 58: "elif instance.is_healthy == False"; None shows nothing (line 62).
send_status_unhealthy(c) ==
    LET h == conn[c] IN
    /\ process = "alive"
    /\ h.pc = "unhealthy"
    /\ conn' = [conn EXCEPT ![c] =
           [h EXCEPT !.pc = IF instances[h.inst].is_healthy = "False"
                            THEN "down" ELSE "instance"]]
    /\ UNCHANGED <<heap_vars, accepted, server_vars>>

\* Lines 59-61.
send_status_down(c) ==
    LET h == conn[c]
        instance == instances[h.inst] IN
    /\ process = "alive"
    /\ h.pc = "down"
    /\ IF instance.last_check_time = None
       THEN conn' = [conn EXCEPT ![c] = handle(h, "TypeError")]
       ELSE conn' = [conn EXCEPT ![c] =
                [h EXCEPT !.pc = "instance",
                          !.response = append_to_last(h.response,
                                           down_suffix(instance.last_check_time[1]))]]
    /\ UNCHANGED <<heap_vars, accepted, server_vars>>

\* socket.sendall(data) that returns: the client has received all of data.
sendall_first_piece(data) == SubSeq(data, 1, IF Len(data) > 0 THEN 1 ELSE 0)
sendall(data) == data

\* What the client holds when sendall raises (the client has gone): a proper
\* prefix of data.
PartialWrites(data) ==
    {SubSeq(data, 1, k) : k \in {n \in 0..MaxPartial : n < Len(data)}}

\* Line 65: self.request.sendall('\n'.join(response).encode('utf-8')).  The call
\* blocks until the client has taken everything (the step is then not taken yet),
\* or raises with part of the data delivered.
send_status_sendall(c) ==
    LET h == conn[c]
        data == join(h.response) IN
    /\ process = "alive"
    /\ h.pc = "sendall"
    /\ \/ conn' = [conn EXCEPT ![c] =
              [Ended(h) EXCEPT !.received = sendall(data), !.outcome = "sent"]]
       \/ \E part \in PartialWrites(data) :
              conn' = [conn EXCEPT ![c] = [handle(h, "BrokenPipeError") EXCEPT !.received = part]]
    /\ UNCHANGED <<heap_vars, accepted, server_vars>>

\* One step of the handler thread of connection c.
HandlerStep(c) ==
    \/ send_status_service(c)
    \/ send_status_uploaded(c)
    \/ send_status_instance(c)
    \/ send_status_timestamp(c)
    \/ send_status_online(c)
    \/ send_status_is_healthy(c)
    \/ send_status_up(c)
    \/ send_status_unhealthy(c)
    \/ send_status_down(c)
    \/ send_status_sendall(c)

\* ------------------------------------------------------------ send_status, uninterrupted

\* The line of one instance as lines 44-61 build it from one state of the object.
instance_line(instance, healthcheck) ==
    LET line == IF instance.timestamp = None
                THEN offline_line(instance.onion_address)
                ELSE online_line(instance.onion_address, instance.timestamp[1],
                                 instance.introduction_points)
    IN  IF healthcheck /\ instance.is_healthy = "True"
        THEN line \o up_suffix(instance.last_check_time[1])
        ELSE IF healthcheck /\ instance.is_healthy = "False"
        THEN line \o down_suffix(instance.last_check_time[1])
        ELSE line

\* The lines of one service (lines 35-61) from one state of the objects.
service_lines(svc, insts) ==
    <<service_line(svc.onion_address,
                   IF svc.uploaded # None THEN strftime_full(svc.uploaded[1])
                   ELSE <<"[not uploaded]">>)>>
      \o [j \in 1..Len(svc.instances) |->
             instance_line(insts[svc.instances[j]], svc.health_check_type # "None")]

RECURSIVE all_lines(_, _)
all_lines(svcs, insts) ==
    IF svcs = <<>> THEN <<>>
    ELSE service_lines(Head(svcs), insts) \o all_lines(Tail(svcs), insts)

\* What send_status sends when nothing is written to config.services while it
\* runs: lines 33-65 executed against the one state <<svcs, insts>>.
Render(svcs, insts) == join(Append(all_lines(svcs, insts), <<>>))

\* ------------------------------------------------------------ the owner of config.services

Running(h) == h.pc \notin {"idle", "done"}

\* A write by the owner: every handler that is rendering has now run across it.
Mutated(svcs, insts) ==
    /\ services' = svcs
    /\ instances' = insts
    /\ mutations' = mutations + 1
    /\ conn' = [c \in Conns |->
                   IF Running(conn[c])
                   THEN [conn[c] EXCEPT !.raced = TRUE,
                                        !.seen = @ \cup {<<svcs, insts>>}]
                   ELSE conn[c]]
    /\ UNCHANGED <<accepted, server_vars>>

OwnerCanWrite ==
    /\ process = "alive"
    /\ main_pc = "running"
    /\ mutations < MaxMutations

\* service.uploaded is set after a publish, or cleared.
owner_set_uploaded(k) ==
    /\ OwnerCanWrite
    /\ k \in 1..Len(services)
    /\ \E v \in {None, <<UploadTime>>} :
          /\ v # services[k].uploaded
          /\ Mutated([services EXCEPT ![k].uploaded = v], instances)

\* instance.timestamp is set when a descriptor arrives, or cleared.
owner_set_timestamp(i) ==
    /\ OwnerCanWrite
    /\ i \in Listed(services)
    /\ \E v \in {None, <<RefreshTime>>} :
          /\ v # instances[i].timestamp
          /\ Mutated(services, [instances EXCEPT ![i].timestamp = v])

\* The health checker stores a result and the time of the check.
owner_set_health(i) ==
    /\ OwnerCanWrite
    /\ i \in Listed(services)
    /\ \E v \in {"True", "False"} :
          /\ v # instances[i].is_healthy
          /\ Mutated(services, [instances EXCEPT ![i].is_healthy = v,
                                                 ![i].last_check_time = <<CheckEpoch>>])

RemoveAt(list, j) == SubSeq(list, 1, j - 1) \o SubSeq(list, j + 1, Len(list))

\* An instance is taken out of service.instances.
owner_remove_instance(k) ==
    /\ OwnerCanWrite
    /\ k \in 1..Len(services)
    /\ \E j \in 1..Len(services[k].instances) :
          Mutated([services EXCEPT ![k].instances = RemoveAt(@, j)], instances)

\* An instance of the service's pool is appended to service.instances.
owner_add_instance(k) ==
    /\ OwnerCanWrite
    /\ k \in 1..Len(services)
    /\ \E i \in Pool(k) \ Listed(services) :
          Mutated([services EXCEPT ![k].instances = Append(@, i)], instances)

\* ------------------------------------------------------------ the socket server

\* os.unlink(self.unix_socket_filename): what it can do to a file that exists or
\* does not, the directory being writable or not.
Unlink(exists) == IF exists THEN {"removed", "EACCES"} ELSE {"ENOENT", "EACCES"}

\* cleanup_socket_file (lines 116-125): TRUE when it returns, FALSE when it
\* re-raises the OSError; ENOENT alone is swallowed.
cleanup_swallows_every_error(result) == TRUE
cleanup_socket_file(result) == result \in {"removed", "ENOENT"}

\* ThreadingSocketServer (lines 74-78) leaves ThreadingMixIn.daemon_threads at
\* its default: the handler threads are not daemon threads.
daemon_threads == FALSE

\* ThreadingMixIn.block_on_close, which the class leaves at the default of the
\* socketserver at hand: server_close() joins the handler threads that are not
\* daemon threads (Python 3.7 and later) or does not (earlier).
block_on_close == {TRUE, FALSE}

\* The except clauses of close (lines 135-138): the exceptions it catches.
close_excepts_attribute_error(e) == e = "AttributeError"
close_excepts(e) == e \in {"AttributeError", "OSError"}

\* One more call of close() has returned.
Returned(n) == IF n < 2 THEN n + 1 ELSE n

HandlersEnded == \A c \in Conns : ~Running(conn[c])

main_vars == <<main_pc, closes, close_raised>>
loop_vars == <<thread, shutdown_request, is_shut_down>>

\* __init__ running serve_forever itself instead of starting server_thread:
\* the caller stays inside the constructor.
StatusSocket_init_serves_inline ==
    /\ process = "alive"
    /\ main_pc = "start"
    /\ \E result \in Unlink(sockfile) :
          IF ~cleanup_socket_file(result)
          THEN /\ ctor' = "OSError"
               /\ main_pc' = "running"
               /\ UNCHANGED <<sockfile, server, thread, log>>
          ELSE \/ /\ sockfile' = TRUE
                  /\ server' = "open"
                  /\ thread' = "started"
                  /\ main_pc' = "serve_forever"
                  /\ UNCHANGED <<ctor, log>>
               \/ /\ sockfile' = FALSE
                  /\ ctor' = "NameError"
                  /\ main_pc' = "running"
                  /\ UNCHANGED <<server, thread, log>>
    /\ UNCHANGED <<heap_vars, conn, accepted, shutdown_request, is_shut_down,
                   closes, close_raised, process>>

\* Lines 98-114: __init__.  The file is removed (an OSError other than ENOENT
\* propagates), the server is created and bound, and the serving thread started.
\* When binding raises, the except clause evaluates the undefined name
\* status_socket_location (line 114) before logger.error is called: NameError
\* leaves __init__ and nothing is logged.
StatusSocket_init ==
    /\ process = "alive"
    /\ main_pc = "start"
    /\ main_pc' = "running"
    /\ \E result \in Unlink(sockfile) :
          IF ~cleanup_socket_file(result)
          THEN /\ ctor' = "OSError"
               /\ UNCHANGED <<sockfile, server, thread, log>>
          ELSE \/ /\ sockfile' = TRUE         \* bind creates the socket file
                  /\ server' = "open"
                  /\ thread' = "started"
                  /\ ctor' = "returned"
                  /\ UNCHANGED log
               \/ /\ sockfile' = FALSE        \* bind raises OSError
                  /\ ctor' = "NameError"
                  /\ UNCHANGED <<server, thread, log>>
    /\ UNCHANGED <<heap_vars, conn, accepted, shutdown_request, is_shut_down,
                   closes, close_raised, process>>

\* serve_forever begins and forgets a request made before it began.
serve_forever_start_clears_request ==
    /\ process = "alive"
    /\ thread = "started"
    /\ thread' = "serving"
    /\ is_shut_down' = FALSE
    /\ shutdown_request' = FALSE
    /\ UNCHANGED <<heap_vars, conn, accepted, main_vars, ctor, sockfile, server,
                   log, process>>

\* serve_forever begins in server_thread: self.__is_shut_down.clear().
serve_forever_start ==
    /\ process = "alive"
    /\ thread = "started"
    /\ thread' = "serving"
    /\ is_shut_down' = FALSE
    /\ UNCHANGED <<heap_vars, conn, accepted, main_vars, ctor, sockfile, server,
                   shutdown_request, log, process>>

\* A connection handed to a handler whenever the listening socket is open,
\* whether or not the loop of serve_forever is running.
serve_forever_accept_without_loop ==
    /\ process = "alive"
    /\ server = "open"
    /\ accepted < MaxConns
    /\ accepted' = accepted + 1
    /\ conn' = [conn EXCEPT ![accepted + 1] = NewConn]
    /\ UNCHANGED <<heap_vars, server_vars>>

\* The handler of a new connection starting with the list response of the
\* connection before it (one list shared by the handlers) instead of its own.
serve_forever_accept_shares_response ==
    /\ process = "alive"
    /\ thread = "serving"
    /\ server = "open"
    /\ accepted < MaxConns
    /\ accepted' = accepted + 1
    /\ conn' = [conn EXCEPT ![accepted + 1] =
           [NewConn EXCEPT !.response = IF accepted >= 1 THEN conn[accepted].response
                                        ELSE <<>>]]
    /\ UNCHANGED <<heap_vars, server_vars>>

\* One turn of the loop of serve_forever with a client waiting: the connection
\* is accepted and process_request starts its handler thread.  shutdown() may
\* have set the request flag since the loop last tested it.
serve_forever_accept ==
    /\ process = "alive"
    /\ thread = "serving"
    /\ server = "open"
    /\ accepted < MaxConns
    /\ accepted' = accepted + 1
    /\ conn' = [conn EXCEPT ![accepted + 1] = NewConn]
    /\ UNCHANGED <<heap_vars, server_vars>>

\* The loop leaves only once the handler threads it started have ended.
serve_forever_exit_after_handlers ==
    /\ process = "alive"
    /\ thread = "serving"
    /\ shutdown_request
    /\ HandlersEnded
    /\ thread' = "exited"
    /\ shutdown_request' = FALSE
    /\ is_shut_down' = TRUE
    /\ UNCHANGED <<heap_vars, conn, accepted, main_vars, ctor, sockfile, server,
                   log, process>>

\* The loop of serve_forever sees the request flag and leaves; its finally
\* clause resets the flag and sets the event.
serve_forever_exit ==
    /\ process = "alive"
    /\ thread = "serving"
    /\ shutdown_request
    /\ thread' = "exited"
    /\ shutdown_request' = FALSE
    /\ is_shut_down' = TRUE
    /\ UNCHANGED <<heap_vars, conn, accepted, main_vars, ctor, sockfile, server,
                   log, process>>

\* close() ends with exception e raised in its try block: caught, or not.
close_raises(e) ==
    IF close_excepts(e)
    THEN /\ closes' = Returned(closes)
         /\ close_raised' = close_raised
    ELSE /\ closes' = closes
         /\ close_raised' = e

\* Lines 131-132, 135-136: close() begins.  Without self.server the
\* AttributeError is caught and close returns; otherwise shutdown() sets the
\* request flag and waits for the event.
close_shutdown ==
    /\ process = "alive"
    /\ main_pc = "running"
    /\ ctor # "none"
    /\ IF server = "unset"
       THEN /\ close_raises("AttributeError")
            /\ UNCHANGED <<main_pc, shutdown_request>>
       ELSE /\ shutdown_request' = TRUE
            /\ main_pc' = "shutdown"
            /\ UNCHANGED <<closes, close_raised>>
    /\ UNCHANGED <<heap_vars, conn, accepted, ctor, sockfile, server, thread,
                   is_shut_down, log, process>>

\* server_close() called without waiting for the loop of serve_forever to end.
close_server_close_without_wait ==
    /\ process = "alive"
    /\ main_pc = "shutdown"
    /\ server' = "closed"
    /\ main_pc' = "server_close"
    /\ UNCHANGED <<heap_vars, conn, accepted, ctor, sockfile, loop_vars, log,
                   closes, close_raised, process>>

\* Line 133: shutdown() has returned (the event is set); server_close() closes
\* the listening socket, and then joins the handler threads where the
\* socketserver at hand has block_on_close.
close_server_close ==
    /\ process = "alive"
    /\ main_pc = "shutdown"
    /\ is_shut_down
    /\ server' = "closed"
    /\ main_pc' = "server_close"
    /\ UNCHANGED <<heap_vars, conn, accepted, ctor, sockfile, loop_vars, log,
                   closes, close_raised, process>>

\* Close returns without removing the socket file.
close_no_cleanup ==
    /\ process = "alive"
    /\ main_pc = "server_close"
    /\ main_pc' = "running"
    /\ closes' = Returned(closes)
    /\ UNCHANGED <<heap_vars, conn, accepted, ctor, sockfile, server, loop_vars,
                   log, close_raised, process>>

\* Lines 134, 137-138: server_close() has returned; the socket file is removed,
\* an OSError from that is logged (logger.exception), and close returns.
close_cleanup ==
    /\ process = "alive"
    /\ main_pc = "server_close"
    /\ \E joins \in block_on_close : joins => (daemon_threads \/ HandlersEnded)
    /\ main_pc' = "running"
    /\ \E result \in Unlink(sockfile) :
          /\ sockfile' = (sockfile /\ result # "removed")
          /\ IF cleanup_socket_file(result)
             THEN /\ closes' = Returned(closes)
                  /\ UNCHANGED <<log, close_raised>>
             ELSE /\ close_raises("OSError")
                  /\ log' = IF close_excepts("OSError")
                            THEN log \cup {"Error when removing the status socket"}
                            ELSE log
    /\ UNCHANGED <<heap_vars, conn, accepted, ctor, server, loop_vars, process>>

\* The main thread's flow ends.
main_end ==
    /\ process = "alive"
    /\ main_pc = "running"
    /\ main_pc' = "ended"
    /\ UNCHANGED <<heap_vars, conn, accepted, ctor, sockfile, server, loop_vars,
                   log, closes, close_raised, process>>

\* The interpreter exits once the main thread has ended and every thread that
\* is not a daemon thread has ended; the daemon server_thread is abandoned.
process_exit ==
    /\ process = "alive"
    /\ main_pc = "ended"
    /\ daemon_threads \/ HandlersEnded
    /\ process' = "exited"
    /\ UNCHANGED <<heap_vars, conn, accepted, main_vars, ctor, sockfile, server,
                   loop_vars, log>>

\* ------------------------------------------------------------ specifications

Init ==
    /\ InitSmallHeap
    /\ conn = [c \in Conns |-> NoConn]
    /\ accepted = 0
    /\ main_pc = "start"
    /\ ctor = "none"
    /\ sockfile \in BOOLEAN
    /\ server = "unset"
    /\ thread = "none"
    /\ shutdown_request = FALSE
    /\ is_shut_down = FALSE
    /\ log = {}
    /\ closes = 0
    /\ close_raised = "none"
    /\ process = "alive"

Next ==
    \/ StatusSocket_init
    \/ serve_forever_start
    \/ serve_forever_accept
    \/ serve_forever_exit
    \/ \E c \in Conns : HandlerStep(c)
    \/ close_shutdown
    \/ close_server_close
    \/ close_cleanup
    \/ main_end
    \/ process_exit

\* The status server from the start of the process to its exit, the owner
\* leaving config.services as it is at the start.
Spec == Init /\ [][Next]_vars

\* A server that is serving, with nothing accepted yet.
Serving ==
    /\ conn = [c \in Conns |-> NoConn]
    /\ accepted = 0
    /\ main_pc = "running"
    /\ ctor = "returned"
    /\ sockfile = TRUE
    /\ server = "open"
    /\ thread = "serving"
    /\ shutdown_request = FALSE
    /\ is_shut_down = FALSE
    /\ log = {}
    /\ closes = 0
    /\ close_raised = "none"
    /\ process = "alive"

\* send_status alone: a serving server accepts one connection, whose handler
\* renders a config.services that is in any of its states and that nobody
\* writes to.
InitRender == InitHeap /\ Serving

NextRender ==
    \/ accepted = 0 /\ serve_forever_accept
    \/ \E c \in Conns : HandlerStep(c)

SpecRender == InitRender /\ [][NextRender]_vars

\* The clients: a serving server accepts connections, whose handlers run in
\* any interleaving and render a config.services that nobody writes to: one
\* service with as many instances as a service can hold, in every case of each.
InitClients ==
    /\ \E so \in 1..Len(ServiceCases), io \in 1..Len(InstanceCases) :
          Heap(<<MaxInstances>>, so, io)
    /\ Serving

NextClients ==
    \/ serve_forever_accept
    \/ \E c \in Conns : HandlerStep(c)

SpecClients == InitClients /\ [][NextClients]_vars

\* The handler against the owner: the owner writes to config.services while
\* the handler of one connection renders it.
NextRace ==
    \/ accepted = 0 /\ serve_forever_accept
    \/ \E c \in Conns : HandlerStep(c)
    \/ \E k \in 1..MaxServices : owner_set_uploaded(k)
    \/ \E i \in InstIds : owner_set_timestamp(i)
    \/ \E i \in InstIds : owner_set_health(i)
    \/ \E k \in 1..MaxServices : owner_remove_instance(k)
    \/ \E k \in 1..MaxServices : owner_add_instance(k)

SpecRace == InitRender /\ [][NextRace]_vars

\* The faults: a serving server accepts connections while the owner writes to
\* the timestamp of an instance that has been refreshed, so that handlers fault while they render as well as while they
\* write, next to handlers that do not.
InitFault ==
    /\ InitSmallHeap
    /\ instances[1].timestamp # None
    /\ Serving

NextFault ==
    \/ serve_forever_accept
    \/ \E c \in Conns : HandlerStep(c)
    \/ owner_set_timestamp(1)

SpecFault == InitFault /\ [][NextFault]_vars

\* The caller: the owning process constructs the StatusSocket and goes on
\* writing to config.services, while server_thread accepts a connection and
\* its handler renders and writes.
NextCaller ==
    \/ StatusSocket_init
    \/ serve_forever_start
    \/ accepted = 0 /\ serve_forever_accept
    \/ \E c \in Conns : HandlerStep(c)
    \/ owner_set_uploaded(1)
    \/ owner_set_timestamp(1)
    \/ owner_set_health(1)

SpecCaller == Init /\ [][NextCaller]_vars

\* The server from its construction to the return of close, under a scheduler
\* that runs server_thread and the main thread: serve_forever starts and, once
\* asked to, leaves its loop (it polls the request flag every poll_interval);
\* shutdown() returns when the event is set; server_close() returns when the
\* handler threads it may have to join have ended.  Nothing is assumed of the
\* handler threads, which can stay blocked in sendall for ever.  One connection
\* is accepted; the service has been uploaded and is checked, and its instance
\* is in every case.
InitLive ==
    /\ Init
    /\ services[1].uploaded # None
    /\ services[1].health_check_type # "None"

NextLive ==
    \/ StatusSocket_init
    \/ serve_forever_start
    \/ accepted = 0 /\ serve_forever_accept
    \/ serve_forever_exit
    \/ \E c \in Conns : HandlerStep(c)
    \/ close_shutdown
    \/ close_server_close
    \/ close_cleanup

Fairness ==
    /\ WF_vars(serve_forever_start)
    /\ WF_vars(serve_forever_exit)
    /\ WF_vars(close_server_close)
    /\ WF_vars(close_cleanup /\ HandlersEnded)

SpecLive == InitLive /\ [][NextLive]_vars /\ Fairness

\* ------------------------------------------------------------ the lifecycle

\* The state of the server's lifecycle: Uninitialized before __init__ has run;
\* Bound with the socket listening and server_thread not yet in serve_forever;
\* Serving while the loop of serve_forever runs; ShuttingDown when the loop has
\* ended and the listening socket is still open; Closed when the socket is
\* closed, or when __init__ has ended without a server.
LifecycleState ==
    IF ctor = "none" THEN "Uninitialized"
    ELSE IF server # "open" THEN "Closed"
    ELSE IF thread = "started" THEN "Bound"
    ELSE IF thread = "serving" THEN "Serving"
    ELSE "ShuttingDown"

\* The transitions of the lifecycle.
LifecycleTransitions ==
    {<<"Uninitialized", "Bound">>, <<"Bound", "Serving">>,
     <<"Serving", "ShuttingDown">>, <<"ShuttingDown", "Closed">>,
     <<"Uninitialized", "Closed">>}

\* ------------------------------------------------------------ reading a response

Has(line, piece) == \E j \in 1..Len(line) : line[j] = piece

HasHealthSuffix(line) == Has(line, " [up at ") \/ Has(line, " [down at ")

\* The lines of a response: the text between its newlines.
RECURSIVE SplitLines(_)
SplitLines(data) ==
    IF ~Has(data, "\n") THEN <<data>>
    ELSE LET k == CHOOSE j \in 1..Len(data) :
                     data[j] = "\n" /\ \A m \in 1..(j - 1) : data[m] # "\n"
         IN  <<SubSeq(data, 1, k - 1)>> \o SplitLines(SubSeq(data, k + 1, Len(data)))

\* The lines of a response that are indented and begin with instance i's address.
InstanceLines(data, i) ==
    {line \in {SplitLines(data)[n] : n \in 1..Len(SplitLines(data))} :
        Len(line) >= 2 /\ line[1] = "  " /\ line[2] = InstanceAddress[i]}

EndsWith(line, piece) == Len(line) > 0 /\ line[Len(line)] = piece

Sent(c) == conn[c].outcome = "sent"

\* The instances of service k, in the order of its list.
InstancesOf(k) == {services[k].instances[j] : j \in 1..Len(services[k].instances)}

\* ------------------------------------------------------------ claims

\* C1: when binding fails in __init__, construction logs an error, returns
\* normally and leaves the server non-serving.  (Binding has failed when
\* __init__ has ended otherwise than by the OSError of cleanup_socket_file and
\* self.server is unset.)
C1_BindFailureIsLoggedNotRaised ==
    (ctor \notin {"none", "OSError"} /\ server = "unset")
        => /\ ctor = "returned"
           /\ "Could not start status socket" \in log
           /\ thread = "none"
           /\ accepted = 0

\* C2 as stated: for every instance without a timestamp, whatever the health
\* check configuration and the health status, the line sent for it ends in
\* "[offline]" and carries neither a count of introduction points nor a health
\* suffix.
C2_OfflineLineEndsInOffline ==
    \A c \in Conns : Sent(c) =>
        \A k \in 1..Len(services) : \A i \in InstancesOf(k) :
            instances[i].timestamp = None =>
                /\ InstanceLines(conn[c].received, i) # {}
                /\ \A line \in InstanceLines(conn[c].received, i) :
                      /\ EndsWith(line, "[offline]")
                      /\ ~Has(line, " IPs")
                      /\ ~HasHealthSuffix(line)

\* C2 as amended: for every instance without a timestamp the line sent for it
\* is its address followed by "[offline]", with no count of introduction
\* points; it ends in "[offline]" exactly when the service's health check type
\* is None or the instance's health status is unknown, and otherwise the
\* health suffix follows "[offline]".
C2_OfflineLine ==
    \A c \in Conns : Sent(c) =>
        \A k \in 1..Len(services) : \A i \in InstancesOf(k) :
            instances[i].timestamp = None =>
                /\ InstanceLines(conn[c].received, i) # {}
                /\ \A line \in InstanceLines(conn[c].received, i) :
                      /\ Len(line) >= 4
                      /\ SubSeq(line, 1, 4)
                            = <<"  ", InstanceAddress[i], ".onion ", "[offline]">>
                      /\ ~Has(line, " IPs")
                      /\ EndsWith(line, "[offline]")
                            <=> (services[k].health_check_type = "None"
                                    \/ instances[i].is_healthy = "None")
                      /\ ~EndsWith(line, "[offline]") => HasHealthSuffix(line)

\* An offline instance that was checked healthy, of a service with health
\* checks, has been rendered and sent.
C2_Witness ==
    \E c \in Conns : \E k \in 1..Len(services) : \E i \in InstancesOf(k) :
        /\ Sent(c)
        /\ instances[i].timestamp = None
        /\ instances[i].is_healthy = "True"
        /\ services[k].health_check_type # "None"

\* C3: the line of an instance carries a health suffix if and only if the
\* health check type of its service is not None and the instance's health
\* status is healthy ("[up at") or unhealthy ("[down at"); never when the
\* status is unknown or the type is None.
C3_HealthSuffixIff ==
    \A c \in Conns : Sent(c) =>
        \A k \in 1..Len(services) : \A i \in InstancesOf(k) :
            /\ InstanceLines(conn[c].received, i) # {}
            /\ \A line \in InstanceLines(conn[c].received, i) :
                  /\ Has(line, " [up at ")
                        <=> (services[k].health_check_type # "None"
                                /\ instances[i].is_healthy = "True")
                  /\ Has(line, " [down at ")
                        <=> (services[k].health_check_type # "None"
                                /\ instances[i].is_healthy = "False")

\* A response has been sent that holds a line with a health suffix, for an
\* instance checked unhealthy of a service with health checks.
C3_Witness ==
    \E c \in Conns : \E k \in 1..Len(services) : \E i \in InstancesOf(k) :
        /\ Sent(c)
        /\ services[k].health_check_type # "None"
        /\ instances[i].is_healthy = "False"
        /\ \E line \in InstanceLines(conn[c].received, i) : Has(line, " [down at ")

\* C4: with zero services the response is exactly one newline, and every
\* response ends with a newline.
C4_EndsWithNewline ==
    \A c \in Conns : Sent(c) =>
        /\ services = <<>> => conn[c].received = <<"\n">>
        /\ EndsWith(conn[c].received, "\n")

\* C5: whatever the owner writes while send_status runs, the handler does not
\* fault while rendering, and the response a client receives is the rendering
\* of a state config.services held at one instant of the render.
C5_RaceFree ==
    \A c \in Conns : conn[c].pc = "done" =>
        /\ conn[c].error \notin {"AttributeError", "TypeError"}
        /\ Sent(c) => conn[c].received \in {Render(h[1], h[2]) : h \in conn[c].seen}

\* C6: while config.services does not change, every client that is sent a
\* response receives the complete rendering of config.services, and all the
\* responses are identical, under every interleaving of the handler threads.
C6_IdenticalComplete ==
    /\ \A c \in Conns : Sent(c) => conn[c].received = Render(services, instances)
    /\ \A c, d \in Conns : (Sent(c) /\ Sent(d)) => conn[c].received = conn[d].received

\* Two handlers have run at once: the second connection's response is sent,
\* not empty, while the first handler is still about to write.
C6_Witness ==
    /\ MaxConns >= 2
    /\ Sent(2)
    /\ conn[2].received # <<>>
    /\ conn[1].pc = "sendall"

\* C7: an exception raised while rendering or writing for one connection is
\* caught in that connection's handle() and logged as a warning; the step
\* leaves the serving thread, the listening socket and the process as they
\* are, and every other connection's state and response as they are.
C7_FaultIsolated ==
    [][\A c \in Conns :
          (conn[c].error = "none" /\ conn'[c].error # "none") =>
              /\ conn'[c].outcome = "warned"
              /\ conn'[c].pc = "done"
              /\ thread' = thread
              /\ server' = server
              /\ process' = process
              /\ \A d \in Conns \ {c} : conn'[d] = conn[d]]_vars

\* A handler has faulted while rendering (the owner cleared the timestamp it
\* was about to format) and been logged, the server still serves, and another
\* connection has been sent its response.
C7_Witness ==
    \E c, d \in Conns :
        /\ c # d
        /\ conn[c].error = "AttributeError"
        /\ conn[c].outcome = "warned"
        /\ thread = "serving"
        /\ server = "open"
        /\ Sent(d)
        /\ conn[d].received # <<>>

\* C8: no exception leaves close(), in any state of the server and however
\* often it is called.
C8_CloseNeverRaises == close_raised = "none"

\* close() has returned twice, and a removal of the socket file that failed
\* was logged.
C8_Witness ==
    /\ closes = 2
    /\ main_pc = "running"
    /\ "Error when removing the status socket" \in log

\* C9 as stated, of a server whose construction returned: after close() has
\* returned the socket file does not exist and no connection is accepted.
C9_ClosedMeansGone ==
    (closes >= 1 /\ ctor = "returned") =>
        (~sockfile /\ ~ENABLED serve_forever_accept)

\* C9 as amended: after close() has returned no connection is accepted, and
\* the socket file does not exist unless the server was never bound or a
\* removal of the file has failed and been logged.
C9_ClosedMeansGoneUnlessLogged ==
    closes >= 1 =>
        /\ ~ENABLED serve_forever_accept
        /\ sockfile => (server = "unset"
                           \/ "Error when removing the status socket" \in log)

\* close() has returned on a server that accepted a connection: the listening
\* socket is closed and the file is gone.
C9_Witness ==
    /\ closes >= 1
    /\ main_pc = "running"
    /\ server = "closed"
    /\ accepted >= 1
    /\ accepted < MaxConns
    /\ ~sockfile

\* C10: once the main thread has ended, the exit of the process does not wait
\* for the handler threads.
C10_ExitNotBlocked ==
    (main_pc = "ended" /\ process = "alive") => ENABLED process_exit

\* C11: once close() has been called on a serving server, the loop of
\* serve_forever ends, whether or not the handler threads ever end.
C11_LoopStops ==
    (main_pc = "shutdown" /\ thread = "serving") ~> (thread = "exited")

\* The loop has ended at the request of close() while a handler it started is
\* still running.
C11_Witness ==
    /\ thread = "exited"
    /\ main_pc = "shutdown"
    /\ is_shut_down
    /\ \E c \in Conns : Running(conn[c])

\* C20: if the handler threads end, a call of close() returns, with the loop
\* of serve_forever ended, also when it is made before server_thread has
\* begun serve_forever: the request is not lost.
C20_CloseReturns ==
    (\A c \in Conns : WF_vars(HandlerStep(c)))
        => ((main_pc = "shutdown")
               ~> (main_pc = "running" /\ closes >= 1 /\ thread = "exited"))

\* close() has been called and shutdown() has made its request while
\* server_thread has not yet begun serve_forever.
C20_Witness ==
    /\ main_pc = "shutdown"
    /\ shutdown_request
    /\ thread = "started"
    /\ ~is_shut_down

\* C12: __init__ returns once it has started server_thread, and from then on
\* the steps of the owning process (its writes to config.services, its call of
\* close, its end) are enabled whatever server_thread and the handler threads
\* are doing.
C12_CallerNeverBlocked ==
    /\ (server # "unset" \/ thread # "none") => (ctor = "returned" /\ main_pc # "start")
    /\ (ctor = "returned" /\ main_pc = "running" /\ process = "alive") =>
          /\ ENABLED close_shutdown
          /\ ENABLED main_end
          /\ mutations < MaxMutations =>
                /\ ENABLED owner_set_uploaded(1)
                /\ ENABLED owner_set_timestamp(1)
                /\ ENABLED owner_set_health(1)

\* The constructor has returned, the loop is serving, a handler is about to
\* write (or blocked writing), and the owner has written to config.services
\* while that handler was running.
C12_Witness ==
    /\ ctor = "returned"
    /\ main_pc = "running"
    /\ thread = "serving"
    /\ mutations >= 1
    /\ \E c \in Conns : conn[c].pc = "sendall" /\ conn[c].raced

\* C13: __init__ removes a file found at the path before it binds.  Whether a
\* file is there or not, construction can succeed, and then the listening
\* socket is at the path; a removal that fails otherwise than because the file
\* is missing can leave __init__ as OSError, and then nothing was bound, no
\* thread was started and the file is as it was; and when it is the bind that
\* fails, the file that was there has been removed already.
C13_RemovedBeforeBind ==
    /\ []((main_pc = "start" /\ process = "alive") =>
             /\ ENABLED (StatusSocket_init /\ ctor' = "returned")
             /\ ENABLED (StatusSocket_init /\ ctor' = "OSError"))
    /\ [][(main_pc = "start" /\ main_pc' # "start") =>
             \/ /\ ctor' = "returned"
                /\ server' = "open"
                /\ thread' = "started"
                /\ sockfile'
             \/ /\ ctor' = "OSError"
                /\ server' = "unset"
                /\ thread' = "none"
                /\ sockfile' = sockfile
             \/ /\ ctor' = "NameError"
                /\ server' = "unset"
                /\ thread' = "none"
                /\ ~sockfile']_vars

\* __init__ has found a file at the path that it could not remove: the OSError
\* has left it, nothing is bound, no thread runs and the file is still there.
C13_Witness ==
    /\ ctor = "OSError"
    /\ main_pc = "running"
    /\ sockfile
    /\ server = "unset"
    /\ thread = "none"

\* C14: no step of the handlers (send_status, handle) or of the server
\* (__init__, serve_forever, close) writes to config.services, to a service or
\* to an instance: every step that is not a write of the owner leaves them as
\* they are.
C14_SourceUnchanged ==
    [][mutations' = mutations => (services' = services /\ instances' = instances)]_vars

\* With the owner idle, a response has been rendered and sent from a service
\* that has an instance, and close() has returned.
C14_Witness ==
    /\ mutations = 0
    /\ closes >= 1
    /\ server = "closed"
    /\ Len(services) >= 1
    /\ Len(services[1].instances) >= 1
    /\ \E c \in Conns : Sent(c) /\ conn[c].received # <<>>

LineOwner(line) ==
    IF Len(line) >= 2 /\ line[1] = "  "
    THEN <<"instance", line[2]>>
    ELSE <<"service", IF Len(line) >= 1 THEN line[1] ELSE "">>

\* The owners of the lines config.services calls for: each service in the
\* order of the list, followed by its instances in the order of its list.
RECURSIVE Outline(_, _)
Outline(svcs, insts) ==
    IF svcs = <<>> THEN <<>>
    ELSE <<<<"service", Head(svcs).onion_address>>>>
            \o [j \in 1..Len(Head(svcs).instances) |->
                   <<"instance", insts[Head(svcs).instances[j]].onion_address>>]
            \o Outline(Tail(svcs), insts)

\* C16: in every response sent, the lines before the final empty one are, in
\* order, each service's line followed at once by one indented line for each
\* of its instances in the order of service.instances; their number is the
\* number of services plus the number of instances.
C16_Ordered ==
    \A c \in Conns : Sent(c) =>
        LET lines == SplitLines(conn[c].received)
            content == SubSeq(lines, 1, Len(lines) - 1)
        IN  /\ lines[Len(lines)] = <<>>
            /\ Len(content) = Len(services) + Cardinality(Listed(services))
            /\ [n \in 1..Len(content) |-> LineOwner(content[n])]
                  = Outline(services, instances)

\* A response has been sent for two services, the first with two instances
\* and the second with at least one.
C16_Witness ==
    /\ Len(services) = 2
    /\ Len(services[1].instances) = 2
    /\ Len(services[2].instances) >= 1
    /\ \E c \in Conns : Sent(c) /\ Len(SplitLines(conn[c].received)) >= 6

\* C17: while config.services does not change, any two runs of send_status,
\* at the same time or one after the other, produce the same bytes: what two
\* handlers are about to write is equal, what two clients were sent is equal,
\* and what one client was sent equals what a later handler is about to write.
C17_Deterministic ==
    \A c, d \in Conns :
        /\ (conn[c].pc = "sendall" /\ conn[d].pc = "sendall")
              => join(conn[c].response) = join(conn[d].response)
        /\ (Sent(c) /\ conn[d].pc = "sendall")
              => conn[c].received = join(conn[d].response)
        /\ (Sent(c) /\ Sent(d)) => conn[c].received = conn[d].received

\* The first client has been sent a response of several lines, and the
\* handler of the second, accepted later or running beside it, has rendered
\* and is about to write.
C17_Witness ==
    /\ MaxConns >= 2
    /\ Sent(1)
    /\ Len(SplitLines(conn[1].received)) >= 3
    /\ conn[2].pc = "sendall"

\* C18: close() works in order.  The listening socket is closed only when the
\* loop of serve_forever has ended, and not in the step that removes the file;
\* after construction the file is removed only when the socket is closed and
\* the loop has ended, so never while the loop runs and never by a close()
\* whose shutdown() failed for want of a server.
C18_CloseInOrder ==
    /\ [](thread \in {"started", "serving"} => sockfile)
    /\ [][/\ (server = "open" /\ server' = "closed")
              => (thread = "exited" /\ is_shut_down /\ sockfile' = sockfile)
          /\ (main_pc # "start" /\ sockfile /\ ~sockfile')
              => (server = "closed" /\ thread = "exited" /\ server' = "closed")
          /\ (main_pc # "start" /\ server = "unset")
              => (sockfile' = sockfile /\ server' = "unset")]_vars

\* In the middle of close(): the loop has ended after it had accepted a
\* connection, the listening socket is closed, and the file is still there.
C18_Witness ==
    /\ main_pc = "server_close"
    /\ thread = "exited"
    /\ server = "closed"
    /\ sockfile
    /\ accepted >= 1
    /\ closes = 0

\* C19: a handler writes to its connection once at most, at line 65, when the
\* whole response is rendered.  A client has received nothing while its
\* handler renders, nothing when the handler faulted while rendering, and
\* part of the response only when sendall itself raised.
C19_WriteOnceAtTheEnd ==
    /\ [](\A c \in Conns :
             /\ Running(conn[c]) => conn[c].received = <<>>
             /\ conn[c].error \in {"AttributeError", "TypeError"}
                   => conn[c].received = <<>>
             /\ (conn[c].outcome = "warned" /\ conn[c].received # <<>>)
                   => conn[c].error = "BrokenPipeError")
    /\ [][\A c \in Conns :
             conn'[c].received # conn[c].received
                => (conn[c].pc = "sendall" /\ conn'[c].pc = "done")]_vars

\* One handler has faulted while rendering and its client has received
\* nothing; the write of another has failed with part of the response
\* delivered.
C19_Witness ==
    \E c, d \in Conns :
        /\ conn[c].error = "AttributeError"
        /\ conn[c].received = <<>>
        /\ conn[d].error = "BrokenPipeError"
        /\ conn[d].received # <<>>

====
